---- MODULE Spec2Model ----
(***************************************************************************)
(* Loan-Rate-Calculation: the two loan calculators of src/app/page.tsx,    *)
(* calculateCarLoan (flat rate) and calculateHomeLoan (annuity), modelled  *)
(* in the arithmetic the program runs in: every `number` is an IEEE 754    *)
(* binary64 value and every operator rounds to nearest, ties to even.      *)
(***************************************************************************)
EXTENDS Integers, Sequences, FiniteSets, TLC

VARIABLES pc, call, ret, ret2, page, memo, engine, dom

vars == <<pc, call, ret, ret2, page, memo, engine, dom>>

\* the Page component: its state, its memoized values, the engine that
\* evaluates the calculators for it, and the browser around it
pageVars == <<page, memo, engine, dom>>

(***************************************************************************)
(* Natural numbers of any size: little-endian sequences of 14-bit limbs    *)
(* with no leading zero limb (the empty sequence is 0).  They carry the    *)
(* 53-bit significands and their exact products and quotients.             *)
(***************************************************************************)
Base == 2^14

Max(a, b) == IF a >= b THEN a ELSE b

Min(a, b) == IF a <= b THEN a ELSE b

Limb(a, i) == IF i >= 1 /\ i <= Len(a) THEN a[i] ELSE 0

RECURSIVE BNorm(_)
BNorm(a) ==
    IF Len(a) = 0 \/ a[Len(a)] # 0 THEN a ELSE BNorm(SubSeq(a, 1, Len(a) - 1))

RECURSIVE BCarry(_, _, _)
BCarry(c, i, carry) ==
    IF i > Len(c)
    THEN IF carry = 0 THEN <<>> ELSE <<carry % Base>> \o BCarry(c, i, carry \div Base)
    ELSE LET t == c[i] + carry IN <<t % Base>> \o BCarry(c, i + 1, t \div Base)

BFromNat(n) == BCarry(<<>>, 1, n)

BAdd(a, b) ==
    BNorm(BCarry([i \in 1..Max(Len(a), Len(b)) |-> Limb(a, i) + Limb(b, i)], 1, 0))

RECURSIVE BBorrow(_, _, _, _)
BBorrow(a, b, i, br) ==
    IF i > Len(a) THEN <<>>
    ELSE LET t == a[i] - Limb(b, i) - br
         IN  IF t < 0 THEN <<t + Base>> \o BBorrow(a, b, i + 1, 1)
                      ELSE <<t>> \o BBorrow(a, b, i + 1, 0)

\* a - b for a >= b
BSub(a, b) == BNorm(BBorrow(a, b, 1, 0))

RECURSIVE BCmpAt(_, _, _)
BCmpAt(a, b, i) ==
    IF i = 0 THEN 0
    ELSE IF a[i] > b[i] THEN 1
    ELSE IF a[i] < b[i] THEN -1
    ELSE BCmpAt(a, b, i - 1)

\* -1, 0, 1 as a < b, a = b, a > b
BCmp(a, b) ==
    IF Len(a) > Len(b) THEN 1
    ELSE IF Len(a) < Len(b) THEN -1
    ELSE BCmpAt(a, b, Len(a))

RECURSIVE BCol(_, _, _, _)
BCol(a, b, k, i) ==
    IF i > Len(a) \/ i > k THEN 0
    ELSE (IF k + 1 - i <= Len(b) THEN a[i] * b[k + 1 - i] ELSE 0) + BCol(a, b, k, i + 1)

\* schoolbook product by columns; one operand has at most 8 limbs
BMul(a, b) ==
    IF Len(a) = 0 \/ Len(b) = 0 THEN <<>>
    ELSE BNorm(BCarry([k \in 1..(Len(a) + Len(b) - 1) |-> BCol(a, b, k, 1)], 1, 0))

\* a * 2^k
BShl(a, k) ==
    IF Len(a) = 0 THEN <<>>
    ELSE [i \in 1..(k \div 14) |-> 0] \o BMul(a, <<2^(k % 14)>>)

\* a \div 2^k
BShr(a, k) ==
    LET q == k \div 14
        r == k % 14
        x == IF q >= Len(a) THEN <<>> ELSE SubSeq(a, q + 1, Len(a))
    IN  BNorm([i \in 1..Len(x) |->
                 (x[i] \div 2^r) + (Limb(x, i + 1) % 2^r) * 2^(14 - r)])

\* bit i of a, bit 0 the least significant
BBit(a, i) == (Limb(a, (i \div 14) + 1) \div 2^(i % 14)) % 2

\* the k lowest bits of a are all 0
BLowZero(a, k) ==
    /\ \A i \in 1..Min(k \div 14, Len(a)) : a[i] = 0
    /\ Limb(a, (k \div 14) + 1) % 2^(k % 14) = 0

BBitLen(a) ==
    IF Len(a) = 0 THEN 0
    ELSE 14 * (Len(a) - 1) + (CHOOSE n \in 1..14 : a[Len(a)] < 2^n /\ a[Len(a)] >= 2^(n - 1))

BOne == <<1>>

(***************************************************************************)
(* binary64.  A finite value is (-1)^sgn * man * 2^exp, in canonical form: *)
(* zero has man = <<>> and exp = 0; a normal value has a 53-bit man; a     *)
(* subnormal one has exp = EMin and a shorter man.  cls "inf" and "nan"    *)
(* are the infinities and NaN.                                             *)
(***************************************************************************)
Precision == 53

EMin == 0 - 1074

EMax == 1023 - 52

Fin(s, m, e) == [cls |-> "fin", sgn |-> s, man |-> m, exp |-> e]

Zero(s) == Fin(s, <<>>, 0)

Inf(s) == [cls |-> "inf", sgn |-> s, man |-> <<>>, exp |-> 0]

NaN == [cls |-> "nan", sgn |-> 0, man |-> <<>>, exp |-> 0]

IsNaN(x) == x.cls = "nan"

IsZero(x) == x.cls = "fin" /\ Len(x.man) = 0

IsFinite(x) == x.cls = "fin"

\* The double nearest to (-1)^s * (m + f) * 2^e, ties to even, where f is a
\* fraction in [0, 1) that is non-zero exactly when sticky holds.
RoundNE(s, m, e, sticky) ==
    IF Len(m) = 0 /\ ~sticky THEN Zero(s)
    ELSE
    LET L  == BBitLen(m)
        sh == Max(L - Precision, EMin - e)
    IN  IF sh <= 0
        THEN LET up == Min(Precision - L, e - EMin)
             IN  IF e - up > EMax THEN Inf(s) ELSE Fin(s, BShl(m, up), e - up)
        ELSE LET q   == BShr(m, sh)
                 rb  == BBit(m, sh - 1)
                 st  == sticky \/ ~BLowZero(m, sh - 1)
                 inc == rb = 1 /\ (st \/ BBit(q, 0) = 1)
                 m1  == IF inc THEN BAdd(q, BOne) ELSE q
                 ovf == BBitLen(m1) > Precision
                 m2  == IF ovf THEN BShr(m1, 1) ELSE m1
                 e2  == IF ovf THEN e + sh + 1 ELSE e + sh
             IN  IF Len(m2) = 0 THEN Zero(s)
                 ELSE IF e2 > EMax THEN Inf(s)
                 ELSE Fin(s, m2, e2)

Xor(a, b) == (a + b) % 2

\* x * y
FMul(x, y) ==
    IF IsNaN(x) \/ IsNaN(y) THEN NaN
    ELSE IF (x.cls = "inf" /\ IsZero(y)) \/ (IsZero(x) /\ y.cls = "inf") THEN NaN
    ELSE IF x.cls = "inf" \/ y.cls = "inf" THEN Inf(Xor(x.sgn, y.sgn))
    ELSE IF IsZero(x) \/ IsZero(y) THEN Zero(Xor(x.sgn, y.sgn))
    ELSE RoundNE(Xor(x.sgn, y.sgn), BMul(x.man, y.man), x.exp + y.exp, FALSE)

RECURSIVE DivBits(_, _, _, _)
\* n more quotient bits of r / d (r < d): the bits, as a number, and the remainder
DivBits(r, d, n, acc) ==
    IF n = 0 THEN [q |-> acc, r |-> r]
    ELSE LET r2 == BAdd(r, r)
         IN  IF BCmp(r2, d) >= 0 THEN DivBits(BSub(r2, d), d, n - 1, 2 * acc + 1)
                                 ELSE DivBits(r2, d, n - 1, 2 * acc)

\* x / y
FDiv(x, y) ==
    IF IsNaN(x) \/ IsNaN(y) THEN NaN
    ELSE IF (x.cls = "inf" /\ y.cls = "inf") \/ (IsZero(x) /\ IsZero(y)) THEN NaN
    ELSE IF x.cls = "inf" \/ IsZero(y) THEN Inf(Xor(x.sgn, y.sgn))
    ELSE IF y.cls = "inf" \/ IsZero(x) THEN Zero(Xor(x.sgn, y.sgn))
    ELSE
    LET lx == BBitLen(x.man)
        ly == BBitLen(y.man)
        a  == BShl(x.man, Precision - lx)
        d  == BShl(y.man, Precision - ly)
        q0 == IF BCmp(a, d) >= 0 THEN 1 ELSE 0
        r0 == IF q0 = 1 THEN BSub(a, d) ELSE a
        s1 == DivBits(r0, d, 14, 0)
        s2 == DivBits(s1.r, d, 14, 0)
        s3 == DivBits(s2.r, d, 14, 0)
        s4 == DivBits(s3.r, d, 14, 0)
        q  == BNorm(<<s4.q, s3.q, s2.q, s1.q, q0>>)
    IN  RoundNE(Xor(x.sgn, y.sgn), q,
                (x.exp - (Precision - lx)) - (y.exp - (Precision - ly)) - 56,
                Len(s4.r) # 0)

Neg(x) == IF IsNaN(x) THEN NaN ELSE [x EXCEPT !.sgn = 1 - x.sgn]

\* x + y for finite non-zero x and y
AddFinite(x, y) ==
    LET far == 64
        big == IF x.exp >= y.exp THEN x ELSE y
        sml0 == IF x.exp >= y.exp THEN y ELSE x
        sml == IF big.exp - sml0.exp > far
               THEN Fin(sml0.sgn, BOne, big.exp - far) ELSE sml0
        e  == sml.exp
        mb == BShl(big.man, big.exp - e)
        ms == sml.man
        c  == BCmp(mb, ms)
    IN  IF big.sgn = sml.sgn THEN RoundNE(big.sgn, BAdd(mb, ms), e, FALSE)
        ELSE IF c = 0 THEN Zero(0)
        ELSE IF c > 0 THEN RoundNE(big.sgn, BSub(mb, ms), e, FALSE)
        ELSE RoundNE(sml.sgn, BSub(ms, mb), e, FALSE)

\* x + y
FAdd(x, y) ==
    IF IsNaN(x) \/ IsNaN(y) THEN NaN
    ELSE IF x.cls = "inf" /\ y.cls = "inf" THEN (IF x.sgn = y.sgn THEN x ELSE NaN)
    ELSE IF x.cls = "inf" THEN x
    ELSE IF y.cls = "inf" THEN y
    ELSE IF IsZero(x) /\ IsZero(y) THEN Zero(IF x.sgn = 1 /\ y.sgn = 1 THEN 1 ELSE 0)
    ELSE IF IsZero(x) THEN y
    ELSE IF IsZero(y) THEN x
    ELSE AddFinite(x, y)

\* x - y
FSub(x, y) == FAdd(x, Neg(y))

\* -1, 0, 1 as |x| < |y|, |x| = |y|, |x| > |y|, for x and y that are not NaN
CmpAbs(x, y) ==
    IF x.cls = "inf" \/ y.cls = "inf"
    THEN (IF x.cls = y.cls THEN 0 ELSE IF x.cls = "inf" THEN 1 ELSE -1)
    ELSE IF IsZero(x) \/ IsZero(y)
    THEN (IF IsZero(x) /\ IsZero(y) THEN 0 ELSE IF IsZero(x) THEN -1 ELSE 1)
    ELSE LET tx == BBitLen(x.man) + x.exp
             ty == BBitLen(y.man) + y.exp
         IN  IF tx > ty THEN 1
             ELSE IF tx < ty THEN -1
             ELSE LET e == Min(x.exp, y.exp)
                  IN  BCmp(BShl(x.man, x.exp - e), BShl(y.man, y.exp - e))

\* -1, 0, 1 as x < y, x = y, x > y, for x and y that are not NaN (-0 = +0)
Cmp(x, y) ==
    IF IsZero(x) /\ IsZero(y) THEN 0
    ELSE IF IsZero(x) THEN (IF y.sgn = 0 THEN -1 ELSE 1)
    ELSE IF IsZero(y) THEN (IF x.sgn = 0 THEN 1 ELSE -1)
    ELSE IF x.sgn # y.sgn THEN (IF x.sgn = 0 THEN 1 ELSE -1)
    ELSE IF x.sgn = 0 THEN CmpAbs(x, y) ELSE 0 - CmpAbs(x, y)

\* x === y
FEq(x, y) == ~IsNaN(x) /\ ~IsNaN(y) /\ Cmp(x, y) = 0

\* x < y
FLt(x, y) == ~IsNaN(x) /\ ~IsNaN(y) /\ Cmp(x, y) < 0

\* x <= y
FLe(x, y) == ~IsNaN(x) /\ ~IsNaN(y) /\ Cmp(x, y) <= 0

\* x > y
FGt(x, y) == FLt(y, x)

\* x >= y
FGe(x, y) == FLe(y, x)

\* Math.max(x, y)
MathMax(x, y) ==
    IF IsNaN(x) \/ IsNaN(y) THEN NaN
    ELSE IF Cmp(x, y) > 0 THEN x
    ELSE IF Cmp(x, y) < 0 THEN y
    ELSE IF x.sgn = 0 THEN x ELSE y

\* the double of an integer
FromInt(n) == RoundNE(IF n < 0 THEN 1 ELSE 0, BFromNat(IF n < 0 THEN 0 - n ELSE n), 0, FALSE)

\* the double of the decimal literal n / 10^k
Dec(n, k) == IF k = 0 THEN FromInt(n) ELSE FDiv(FromInt(n), FromInt(10^k))

\* the integer value of a double that holds a small non-negative integer
IntOf(x) ==
    LET m == BShr(x.man, 0 - x.exp)
    IN  Limb(m, 1) + Limb(m, 2) * Base + Limb(m, 3) * Base * Base

(***************************************************************************)
(* base ** exponent for a finite base >= 1 and an integer exponent >= 1.   *)
(* ECMAScript leaves the result "implementation-approximated"; engines     *)
(* return a faithful rounding, so the result is any double from the one    *)
(* just below the exact power to the one just above it.  The exact power   *)
(* is enclosed by square-and-multiply on 112-bit intervals.                *)
(***************************************************************************)
Ext(m, e) == [m |-> m, e |-> e]

\* the 112-bit value at or just below m * 2^e
TruncLo(m, e) ==
    LET L == BBitLen(m)
    IN  IF L <= 112 THEN Ext(m, e) ELSE Ext(BShr(m, L - 112), e + L - 112)

\* the 112-bit value at or just above m * 2^e
TruncHi(m, e) ==
    LET L == BBitLen(m)
        q == BShr(m, L - 112)
        u == IF BLowZero(m, L - 112) THEN q ELSE BAdd(q, BOne)
    IN  IF L <= 112 THEN Ext(m, e)
        ELSE IF BBitLen(u) > 112 THEN Ext(BShr(u, 1), e + L - 112 + 1)
        ELSE Ext(u, e + L - 112)

IvMul(a, b) ==
    [lo |-> TruncLo(BMul(a.lo.m, b.lo.m), a.lo.e + b.lo.e),
     hi |-> TruncHi(BMul(a.hi.m, b.hi.m), a.hi.e + b.hi.e)]

RECURSIVE PowIv(_, _)
PowIv(x, n) ==
    IF n = 1 THEN [lo |-> x, hi |-> x]
    ELSE IF n % 2 = 0 THEN LET h == PowIv(x, n \div 2) IN IvMul(h, h)
    ELSE IvMul(PowIv(x, n - 1), [lo |-> x, hi |-> x])

\* the double at or just below the positive value x.m * 2^x.e
RoundDown(x) ==
    LET L == BBitLen(x.m)
    IN  IF L <= Precision THEN RoundNE(0, x.m, x.e, FALSE)
        ELSE RoundNE(0, BShr(x.m, L - Precision), x.e + L - Precision, FALSE)

\* the double at or just above the positive value x.m * 2^x.e
RoundUp(x) ==
    LET L == BBitLen(x.m)
        q == BShr(x.m, L - Precision)
    IN  IF L <= Precision THEN RoundNE(0, x.m, x.e, FALSE)
        ELSE IF BLowZero(x.m, L - Precision) THEN RoundNE(0, q, x.e + L - Precision, FALSE)
        ELSE RoundNE(0, BAdd(q, BOne), x.e + L - Precision, FALSE)

\* the next double above a positive double
FSucc(d) == IF d.cls = "fin" THEN RoundNE(0, BAdd(d.man, BOne), d.exp, FALSE) ELSE d

\* the values base ** exponent may take
Exponentiate(base, exponent) ==
    IF IsNaN(base) \/ IsNaN(exponent) THEN {NaN}
    ELSE IF base.cls = "inf" THEN {Inf(0)}
    ELSE LET iv  == PowIv(Ext(base.man, base.exp), IntOf(exponent))
             dlo == RoundDown(iv.lo)
             dhi == RoundUp(iv.hi)
         IN  {dlo, dhi} \cup {s \in {FSucc(dlo)} : FLe(s, dhi)}

(***************************************************************************)
(* The calculators, one operator per statement of the source.              *)
(***************************************************************************)
FZero == Zero(0)

One == FromInt(1)

Twelve == FromInt(12)

Hundred == FromInt(100)

\* calculateCarLoan: const downAmount = price * (downPercent / 100)
carDownAmount(price, downPercent) == FMul(price, FDiv(downPercent, Hundred))

\* a slip: the financed amount without its floor at 0
carFinanceAmount_NoClamp(price, downAmount) == FSub(price, downAmount)

\* const financeAmount = Math.max(0, price - downAmount)
carFinanceAmount(price, downAmount) == MathMax(FZero, FSub(price, downAmount))

\* a slip: interest accrued per installment, not per year
carTotalInterest_PerMonth(financeAmount, interestRate, years) ==
    FMul(FMul(financeAmount, FDiv(interestRate, Hundred)),
         MathMax(One, FMul(years, Twelve)))

\* const totalInterest = financeAmount * (interestRate / 100) * years
carTotalInterest(financeAmount, interestRate, years) ==
    FMul(FMul(financeAmount, FDiv(interestRate, Hundred)), years)

\* const totalDebt = financeAmount + totalInterest
carTotalDebt(financeAmount, totalInterest) == FAdd(financeAmount, totalInterest)

\* a slip: the installment count without its floor at 1
carMonths_NoFloor(years) == FMul(years, Twelve)

\* const months = Math.max(1, years * 12)
carMonths(years) == MathMax(One, FMul(years, Twelve))

\* const monthlyBase = totalDebt / months
carMonthlyBase(totalDebt, months) == FDiv(totalDebt, months)

\* a slip: the tax charged only while the car tab is the active one
carVatPerMonth_OnCarTab(monthlyBase, carType) == IF carType = "used" /\ page.activeTab = "car" THEN FMul(monthlyBase, Dec(7, 2)) ELSE FZero

\* a slip: the tax charged whatever the vehicle type
carVatPerMonth_EveryType(monthlyBase, carType) == FMul(monthlyBase, Dec(7, 2))

\* const vatPerMonth = carType === "used" ? monthlyBase * 0.07 : 0
carVatPerMonth(monthlyBase, carType) ==
    IF carType = "used" THEN FMul(monthlyBase, Dec(7, 2)) ELSE FZero

\* a slip: the tax left out of the installment
carMonthlyTotal_NoTax(monthlyBase, vatPerMonth) == monthlyBase

\* const monthlyTotal = monthlyBase + vatPerMonth
carMonthlyTotal(monthlyBase, vatPerMonth) == FAdd(monthlyBase, vatPerMonth)

\* const totalPaid = downAmount + monthlyTotal * months
carTotalPaid(downAmount, monthlyTotal, months) == FAdd(downAmount, FMul(monthlyTotal, months))

(***************************************************************************)
(* calculateCarLoan's statements in order.  Each carAt<n> has, as          *)
(* parameters, the constants the source has bound on reaching that line,   *)
(* binds the next one and goes on; the last builds the returned object.    *)
(***************************************************************************)
carAt74(downAmount, financeAmount, totalInterest, totalDebt, months, monthlyBase, vatPerMonth, monthlyTotal, totalPaid) ==
    [downAmount |-> downAmount, financeAmount |-> financeAmount,
     totalInterest |-> totalInterest, totalDebt |-> totalDebt, months |-> months,
     monthlyBase |-> monthlyBase, vatPerMonth |-> vatPerMonth,
     monthlyTotal |-> monthlyTotal, totalPaid |-> totalPaid]

carAt72(downAmount, financeAmount, totalInterest, totalDebt, months, monthlyBase, vatPerMonth, monthlyTotal) ==
    carAt74(downAmount, financeAmount, totalInterest, totalDebt, months, monthlyBase,
            vatPerMonth, monthlyTotal, carTotalPaid(downAmount, monthlyTotal, months))

carAt71(downAmount, financeAmount, totalInterest, totalDebt, months, monthlyBase, vatPerMonth) ==
    carAt72(downAmount, financeAmount, totalInterest, totalDebt, months, monthlyBase,
            vatPerMonth, carMonthlyTotal(monthlyBase, vatPerMonth))

carAt70(carType, downAmount, financeAmount, totalInterest, totalDebt, months, monthlyBase) ==
    carAt71(downAmount, financeAmount, totalInterest, totalDebt, months, monthlyBase,
            carVatPerMonth(monthlyBase, carType))

carAt69(carType, downAmount, financeAmount, totalInterest, totalDebt, months) ==
    carAt70(carType, downAmount, financeAmount, totalInterest, totalDebt, months,
            carMonthlyBase(totalDebt, months))

carAt68(years, carType, downAmount, financeAmount, totalInterest, totalDebt) ==
    carAt69(carType, downAmount, financeAmount, totalInterest, totalDebt, carMonths(years))

carAt67(years, carType, downAmount, financeAmount, totalInterest) ==
    carAt68(years, carType, downAmount, financeAmount, totalInterest,
            carTotalDebt(financeAmount, totalInterest))

carAt66(interestRate, years, carType, downAmount, financeAmount) ==
    carAt67(years, carType, downAmount, financeAmount,
            carTotalInterest(financeAmount, interestRate, years))

carAt65(price, interestRate, years, carType, downAmount) ==
    carAt66(interestRate, years, carType, downAmount, carFinanceAmount(price, downAmount))

calculateCarLoan(price, downPercent, interestRate, years, carType) ==
    carAt65(price, interestRate, years, carType, carDownAmount(price, downPercent))

\* calculateHomeLoan: const downAmount = price * (downPercent / 100)
homeDownAmount(price, downPercent) == FMul(price, FDiv(downPercent, Hundred))

\* a slip: the down payment not taken off the price
homePrincipal_NoDown(price, downAmount) == MathMax(FZero, price)

\* const principal = Math.max(0, price - downAmount)
homePrincipal(price, downAmount) == MathMax(FZero, FSub(price, downAmount))

\* const months = Math.max(1, years * 12)
homeMonths(years) == MathMax(One, FMul(years, Twelve))

\* a slip: the annual rate used as the monthly rate
homeMonthlyRate_Annual(interestRate) == FDiv(interestRate, Hundred)

\* const monthlyRate = (interestRate / 100) / 12
homeMonthlyRate(interestRate) == FDiv(FDiv(interestRate, Hundred), Twelve)

\* whether the source evaluates (1 + monthlyRate) ** months
homeUsesPow(principal, monthlyRate) == FGt(principal, FZero) /\ ~FEq(monthlyRate, FZero)

\* let monthlyPayment = 0; if (principal > 0) { ... }, pow being the value
\* of (1 + monthlyRate) ** months where that is evaluated
homeMonthlyPayment(principal, monthlyRate, months, pow) ==
    IF FGt(principal, FZero)
    THEN IF FEq(monthlyRate, FZero)
         THEN FDiv(principal, months)
         ELSE FMul(principal, FDiv(FMul(monthlyRate, pow), FSub(pow, One)))
    ELSE FZero

\* const totalPayment = monthlyPayment * months
homeTotalPayment(monthlyPayment, months) == FMul(monthlyPayment, months)

\* a slip: the interest total without its floor at 0
homeTotalInterest_NoClamp(totalPayment, principal) == FSub(totalPayment, principal)

\* const totalInterest = Math.max(0, totalPayment - principal)
homeTotalInterest(totalPayment, principal) == MathMax(FZero, FSub(totalPayment, principal))

\* a slip: a 360-day year
homeFirstMonthInterest_Year360(principal, interestRate, daysInMonth) == FDiv(FMul(FMul(principal, FDiv(interestRate, Hundred)), daysInMonth), FromInt(360))

\* const firstMonthInterest = (principal * (interestRate / 100) * daysInMonth) / 365
homeFirstMonthInterest(principal, interestRate, daysInMonth) ==
    FDiv(FMul(FMul(principal, FDiv(interestRate, Hundred)), daysInMonth), FromInt(365))

\* the values of (1 + monthlyRate) ** months, where the source evaluates it
homePow(principal, monthlyRate, months) ==
    IF homeUsesPow(principal, monthlyRate)
    THEN Exponentiate(FAdd(One, monthlyRate), months)
    ELSE {One}

(***************************************************************************)
(* calculateHomeLoan's statements in order, as for calculateCarLoan.  The  *)
(* function's value here is the set of objects it may return, one for     *)
(* each value of the power.                                                *)
(***************************************************************************)
homeAt97(downAmount, principal, months, monthlyRate, monthlyPayment, totalPayment, totalInterest, firstMonthInterest) ==
    [downAmount |-> downAmount, principal |-> principal, months |-> months,
     monthlyRate |-> monthlyRate, monthlyPayment |-> monthlyPayment,
     totalPayment |-> totalPayment, totalInterest |-> totalInterest,
     firstMonthInterest |-> firstMonthInterest]

homeAt94(interestRate, daysInMonth, downAmount, principal, months, monthlyRate, monthlyPayment, totalPayment) ==
    homeAt97(downAmount, principal, months, monthlyRate, monthlyPayment, totalPayment,
             homeTotalInterest(totalPayment, principal),
             homeFirstMonthInterest(principal, interestRate, daysInMonth))

homeAt93(interestRate, daysInMonth, downAmount, principal, months, monthlyRate, monthlyPayment) ==
    homeAt94(interestRate, daysInMonth, downAmount, principal, months, monthlyRate,
             monthlyPayment, homeTotalPayment(monthlyPayment, months))

homeAt83(interestRate, daysInMonth, downAmount, principal, months, monthlyRate) ==
    { homeAt93(interestRate, daysInMonth, downAmount, principal, months, monthlyRate,
               homeMonthlyPayment(principal, monthlyRate, months, pow))
      : pow \in homePow(principal, monthlyRate, months) }

homeAt80(interestRate, years, daysInMonth, downAmount, principal) ==
    homeAt83(interestRate, daysInMonth, downAmount, principal, homeMonths(years),
             homeMonthlyRate(interestRate))

homeAt79(price, interestRate, years, daysInMonth, downAmount) ==
    homeAt80(interestRate, years, daysInMonth, downAmount, homePrincipal(price, downAmount))

calculateHomeLoan(price, downPercent, interestRate, years, daysInMonth) ==
    homeAt79(price, interestRate, years, daysInMonth, homeDownAmount(price, downPercent))

(***************************************************************************)
(* The calls checked.  A call holds its arguments as the decimal numbers   *)
(* the caller writes: price, downPercent and years are integers, and       *)
(* interestRate is n / 10^k.                                               *)
(***************************************************************************)
MaxTermSteps == 2

Prices == {0 - 500000, 0, 500000, 800000, 3000000}

DownPercents == {0, 10, 25, 100, 150}

InterestRates == {[n |-> 0, k |-> 0], [n |-> 25, k |-> 1], [n |-> 3, k |-> 0],
                  [n |-> 10000, k |-> 0]}

Years == {0, 5} \cup {30 + 5 * i : i \in 0..(MaxTermSteps - 1)}

CarTypes == {"new", "used"}

DaysInMonth == {28, 29, 30, 31}

CarCalls ==
    [fn : {"car"}, price : Prices, downPercent : DownPercents,
     interestRate : InterestRates, years : Years, carType : CarTypes]

HomeCalls ==
    [fn : {"home"}, price : Prices, downPercent : DownPercents,
     interestRate : InterestRates, years : Years, daysInMonth : DaysInMonth]

NoResult == [none |-> TRUE]

Rate(c) == Dec(c.interestRate.n, c.interestRate.k)

CallCar ==
    /\ pc = "call"
    /\ call.fn = "car"
    /\ ret' = calculateCarLoan(FromInt(call.price), FromInt(call.downPercent), Rate(call),
                               FromInt(call.years), call.carType)
    /\ pc' = "done"
    /\ UNCHANGED <<call, ret2, pageVars>>

\* the same call with the term doubled
CallCarDoubled ==
    /\ pc = "done"
    /\ call.fn = "car"
    /\ ret2' = calculateCarLoan(FromInt(call.price), FromInt(call.downPercent), Rate(call),
                                FMul(FromInt(2), FromInt(call.years)), call.carType)
    /\ pc' = "done2"
    /\ UNCHANGED <<call, ret, pageVars>>

CallHome ==
    /\ pc = "call"
    /\ call.fn = "home"
    /\ ret' \in calculateHomeLoan(FromInt(call.price), FromInt(call.downPercent), Rate(call),
                                  FromInt(call.years), FromInt(call.daysInMonth))
    /\ pc' = "done"
    /\ UNCHANGED <<call, ret2, pageVars>>

\* the calculators called on their own: no page is mounted
NoPage == page = NoResult /\ memo = NoResult /\ engine = NoResult /\ dom = NoResult

InitCar == pc = "call" /\ call \in CarCalls /\ ret = NoResult /\ ret2 = NoResult /\ NoPage

InitHome == pc = "call" /\ call \in HomeCalls /\ ret = NoResult /\ ret2 = NoResult /\ NoPage

Init ==
    pc = "call" /\ call \in CarCalls \cup HomeCalls /\ ret = NoResult /\ ret2 = NoResult /\ NoPage

NextCar == CallCar \/ CallCarDoubled

NextHome == CallHome

Next == CallCar \/ CallHome

SpecCar == InitCar /\ [][NextCar]_vars

SpecHome == InitHome /\ [][NextHome]_vars

Spec == Init /\ [][Next]_vars

(***************************************************************************)
(* Vocabulary of the properties.                                           *)
(***************************************************************************)
Called == pc # "call"

IsCar == call.fn = "car"

IsHome == call.fn = "home"

RateIsZero == call.interestRate.n = 0

\* x >= 0, which NaN is not
NonNeg(x) == FGe(x, FZero)

BDiff(a, b) == IF BCmp(a, b) >= 0 THEN BSub(a, b) ELSE BSub(b, a)

\* |x - y| <= y / 2^k, exactly, for finite x >= 0 and y >= 0
FWithinRel(x, y, k) ==
    /\ IsFinite(x) /\ IsFinite(y)
    /\ LET e  == Min(x.exp, y.exp)
           mx == BShl(x.man, x.exp - e)
           my == BShl(y.man, y.exp - e)
       IN  BCmp(BShl(BDiff(mx, my), k), my) <= 0

\* |x - num / den| <= (num / den) / 2^k, exactly, for finite x >= 0 and
\* integers num >= 0 and den > 0
WithinRel(x, num, den, k) ==
    /\ IsFinite(x)
    /\ LET xs == BShl(BMul(x.man, BFromNat(den)), Max(0, x.exp))
           ns == BShl(BFromNat(num), Max(0, 0 - x.exp))
       IN  BCmp(BShl(BDiff(xs, ns), k), ns) <= 0

\* x * 2^k <= y for finite x >= 0 and y >= 0
FLeScaled(x, k, y) ==
    /\ IsFinite(x) /\ IsFinite(y)
    /\ (IsZero(x) \/ Cmp(Fin(0, x.man, x.exp + k), y) <= 0)

\* money2.format(x) shows cents / 100: the decimal value of x >= 0, rounded
\* to two fraction digits with halves up, is cents / 100
RoundsToCents(x, cents) ==
    /\ IsFinite(x) /\ x.sgn = 0
    /\ LET v  == BShl(BMul(x.man, BFromNat(200)), Max(0, x.exp))
           lo == BShl(BFromNat(2 * cents - 1), Max(0, 0 - x.exp))
           hi == BShl(BFromNat(2 * cents + 1), Max(0, 0 - x.exp))
       IN  BCmp(v, lo) >= 0 /\ BCmp(v, hi) < 0

CarMoney == <<ret.downAmount, ret.financeAmount, ret.totalInterest, ret.totalDebt,
              ret.monthlyBase, ret.vatPerMonth, ret.monthlyTotal, ret.totalPaid>>

HomeMoney == <<ret.downAmount, ret.principal, ret.monthlyPayment, ret.totalPayment,
               ret.totalInterest, ret.firstMonthInterest>>

Money == IF IsCar THEN CarMoney ELSE HomeMoney

Financed == IF IsCar THEN ret.financeAmount ELSE ret.principal

(***************************************************************************)
(* C1.  Scenarios A and B of the flat-rate calculator.                     *)
(***************************************************************************)
ScenarioA(carType) ==
    call = [fn |-> "car", price |-> 800000, downPercent |-> 25,
            interestRate |-> [n |-> 25, k |-> 1], years |-> 5, carType |-> carType]

ScenarioANew ==
    /\ ret.downAmount = FromInt(200000)
    /\ ret.financeAmount = FromInt(600000)
    /\ ret.totalInterest = FromInt(75000)
    /\ ret.totalDebt = FromInt(675000)
    /\ ret.months = FromInt(60)
    /\ ret.monthlyBase = FromInt(11250)
    /\ ret.vatPerMonth = FZero
    /\ ret.monthlyTotal = FromInt(11250)
    /\ ret.totalPaid = FromInt(875000)

ScenarioBUsed(vatPerMonth) ==
    /\ ret.monthlyBase = FromInt(11250)
    /\ ret.vatPerMonth = vatPerMonth
    /\ ret.monthlyTotal = Dec(120375, 1)
    /\ ret.totalPaid = FromInt(922250)

\* C1 as stated: calculateCarLoan(800000, 25, 2.5, 5, "new") returns
\* downAmount 200000, financeAmount 600000, totalInterest 75000, totalDebt
\* 675000, months 60, monthlyBase 11250, vatPerMonth 0, monthlyTotal 11250
\* and totalPaid 875000; with "used" it returns monthlyBase 11250,
\* vatPerMonth 787.5, monthlyTotal 12037.5 and totalPaid 922250.
C1_AsStated ==
    Called => /\ ScenarioA("new") => ScenarioANew
              /\ ScenarioA("used") => ScenarioBUsed(Dec(7875, 1))

\* C1 amended: as stated, but the vatPerMonth returned for "used" is
\* 787.5000000000001, the double next above 787.5.
C1_Scenarios ==
    Called => /\ ScenarioA("new") => ScenarioANew
              /\ ScenarioA("used") => ScenarioBUsed(FSucc(Dec(7875, 1)))

C1_Witness == Called /\ ScenarioA("used") /\ FGt(ret.vatPerMonth, Dec(7875, 1))

(***************************************************************************)
(* C2.  Scenario C of the amortizing calculator.                           *)
(***************************************************************************)
ScenarioC ==
    call = [fn |-> "home", price |-> 3000000, downPercent |-> 10,
            interestRate |-> [n |-> 3, k |-> 0], years |-> 30, daysInMonth |-> 31]

ScenarioCResult(paymentCents, firstMonthCents) ==
    /\ ret.downAmount = FromInt(300000)
    /\ ret.principal = FromInt(2700000)
    /\ ret.months = FromInt(360)
    /\ ret.monthlyRate = Dec(25, 4)
    /\ RoundsToCents(ret.monthlyPayment, paymentCents)
    /\ RoundsToCents(ret.firstMonthInterest, firstMonthCents)

\* C2 as stated: calculateHomeLoan(3000000, 10, 3, 30, 31) returns downAmount
\* 300000, principal 2700000, months 360, monthlyRate 0.0025, a monthlyPayment
\* that rounds to 11384.35 and a firstMonthInterest that rounds to 6880.27.
C2_AsStated == (Called /\ ScenarioC) => ScenarioCResult(1138435, 688027)

\* C2 amended: the same, with a monthlyPayment that rounds to 11383.31 and a
\* firstMonthInterest that rounds to 6879.45.
C2_ScenarioC == (Called /\ ScenarioC) => ScenarioCResult(1138331, 687945)

C2_Witness == Called /\ ScenarioC /\ FGt(ret.monthlyPayment, FromInt(11383))

(***************************************************************************)
(* C3.  Non-negative monetary outputs.                                     *)
(***************************************************************************)
\* C3 as stated: for price >= 0, downPercent >= 0, rate >= 0, termYears >= 0
\* and any variant or day count, every monetary field of the result of either
\* calculator is >= 0.
C3_AsStated ==
    (Called /\ call.price >= 0) => \A i \in DOMAIN Money : NonNeg(Money[i])

(***************************************************************************)
(* C4.  The financed amount.                                               *)
(***************************************************************************)
\* C4: in both calculators, for price >= 0 and downPercent in [0, 100],
\* downAmount is price * (downPercent / 100) (which is price * downPercent /
\* 100 to within rounding), the financed amount is price - downAmount and is
\* >= 0; and whenever downPercent >= 100 the financed amount is exactly 0.
C4_FinancedAmount ==
    (Called /\ call.price >= 0) =>
        /\ call.downPercent \in 0..100 =>
              /\ ret.downAmount = FMul(FromInt(call.price),
                                       FDiv(FromInt(call.downPercent), Hundred))
              /\ WithinRel(ret.downAmount, call.price * call.downPercent, 100, 52)
              /\ Financed = FSub(FromInt(call.price), ret.downAmount)
              /\ NonNeg(Financed)
        /\ call.downPercent >= 100 => Financed = FZero

C4_Witness == Called /\ call.price > 0 /\ call.downPercent > 100 /\ Financed = FZero

(***************************************************************************)
(* C5.  The installment count.                                             *)
(***************************************************************************)
\* C5: in both calculators months = max(1, termYears * 12), so months >= 1;
\* with termYears = 0 months is 1; and the quotients by months (monthlyBase,
\* the zero-rate monthlyPayment) have a non-zero divisor and are finite.
C5_MonthsFloor ==
    Called =>
        /\ ret.months = FromInt(Max(1, 12 * call.years))
        /\ FGe(ret.months, One)
        /\ call.years = 0 => ret.months = One
        /\ IsCar => /\ ret.monthlyBase = FDiv(ret.totalDebt, ret.months)
                    /\ IsFinite(ret.monthlyBase)
        /\ (IsHome /\ RateIsZero /\ FGt(ret.principal, FZero)) =>
              /\ ret.monthlyPayment = FDiv(ret.principal, ret.months)
              /\ IsFinite(ret.monthlyPayment)

C5_Witness == Called /\ call.years = 0 /\ call.price > 0 /\ call.downPercent < 100

(***************************************************************************)
(* C6.  The monthly tax of the flat-rate calculator.                       *)
(***************************************************************************)
\* C6: for every input of calculateCarLoan, vatPerMonth is exactly 0 for
\* "new" and 0.07 * monthlyBase for "used"; monthlyTotal = monthlyBase +
\* vatPerMonth and totalPaid = downAmount + monthlyTotal * months.
C6_MonthlyTax ==
    (Called /\ IsCar) =>
        /\ call.carType = "new" => ret.vatPerMonth = FZero
        /\ call.carType = "used" => ret.vatPerMonth = FMul(Dec(7, 2), ret.monthlyBase)
        /\ ret.monthlyTotal = FAdd(ret.monthlyBase, ret.vatPerMonth)
        /\ ret.totalPaid = FAdd(ret.downAmount, FMul(ret.monthlyTotal, ret.months))

C6_Witness == Called /\ IsCar /\ call.carType = "used" /\ FGt(ret.vatPerMonth, FZero)

(***************************************************************************)
(* C7.  Simple interest is linear in the term.                             *)
(***************************************************************************)
\* C7: with the other arguments fixed, calculateCarLoan's totalInterest at
\* 2 * years is 2 * its totalInterest at years.
C7_LinearInTerm ==
    pc = "done2" => FEq(ret2.totalInterest, FMul(FromInt(2), ret.totalInterest))

C7_Witness == pc = "done2" /\ call.years > 0 /\ FGt(ret.totalInterest, FZero)

(***************************************************************************)
(* C8.  The amortizing calculator at a zero rate.                          *)
(***************************************************************************)
ZeroRateLoan == Called /\ IsHome /\ RateIsZero /\ FGt(ret.principal, FZero)

\* C8 as stated: with rate 0 and principal > 0, monthlyPayment is principal /
\* months, totalPayment equals principal and totalInterest is 0; with
\* principal 0, monthlyPayment is 0.
C8_AsStated ==
    /\ ZeroRateLoan => /\ ret.monthlyPayment = FDiv(ret.principal, ret.months)
                       /\ FEq(ret.totalPayment, ret.principal)
                       /\ IsZero(ret.totalInterest)
    /\ (Called /\ IsHome /\ IsZero(ret.principal)) => IsZero(ret.monthlyPayment)

\* C8 amended: with rate 0 and principal > 0, monthlyPayment is principal /
\* months; totalPayment is monthlyPayment * months, which is principal to
\* within rounding (a relative 2^-51); totalInterest is max(0, totalPayment -
\* principal): 0, or a rounding residue of at most principal * 2^-51; with
\* principal 0, monthlyPayment is 0.
C8_ZeroRate ==
    /\ ZeroRateLoan => /\ ret.monthlyPayment = FDiv(ret.principal, ret.months)
                       /\ ret.totalPayment = FMul(ret.monthlyPayment, ret.months)
                       /\ FWithinRel(ret.totalPayment, ret.principal, 51)
                       /\ ret.totalInterest =
                              MathMax(FZero, FSub(ret.totalPayment, ret.principal))
                       /\ FLeScaled(ret.totalInterest, 51, ret.principal)
    /\ (Called /\ IsHome /\ IsZero(ret.principal)) => IsZero(ret.monthlyPayment)

C8_Witness == ZeroRateLoan /\ FGt(ret.totalInterest, FZero)

(***************************************************************************)
(* C9.  A full down payment.                                               *)
(***************************************************************************)
\* C9: with downPercent = 100 and price >= 0 the financed amount is 0 and so
\* is every interest and payment figure: totalInterest, totalDebt,
\* monthlyBase, vatPerMonth and monthlyTotal of calculateCarLoan, whose
\* totalPaid is the down payment; monthlyPayment, totalPayment, totalInterest
\* and firstMonthInterest of calculateHomeLoan.
C9_FullDownPayment ==
    (Called /\ call.downPercent = 100 /\ call.price >= 0) =>
        /\ ret.downAmount = FromInt(call.price)
        /\ Financed = FZero
        /\ IsCar => /\ ret.totalInterest = FZero
                    /\ ret.totalDebt = FZero
                    /\ ret.monthlyBase = FZero
                    /\ ret.vatPerMonth = FZero
                    /\ ret.monthlyTotal = FZero
                    /\ ret.totalPaid = ret.downAmount
        /\ IsHome => /\ ret.monthlyPayment = FZero
                     /\ ret.totalPayment = FZero
                     /\ ret.totalInterest = FZero
                     /\ ret.firstMonthInterest = FZero

C9_Witness == Called /\ call.downPercent = 100 /\ call.price > 0 /\ ~RateIsZero

(***************************************************************************)
(* C10.  A zero or negative price.                                         *)
(***************************************************************************)
\* C10 as stated: for a price <= 0 and downPercent in [0, 100], every monetary
\* field of the result of either calculator, downAmount and totalPaid
\* included, is zero.
C10_AsStated ==
    (Called /\ call.price <= 0 /\ call.downPercent \in 0..100) =>
        \A i \in DOMAIN Money : IsZero(Money[i])

(***************************************************************************)
(* One engine evaluates ** the same way every time: (1 + monthlyRate) **   *)
(* months is a function of its operands.  Which faithfully rounded value   *)
(* it returns is the engine's choice; PowRoundings are the two extreme     *)
(* engines, rounding every power down or every power up.                   *)
(***************************************************************************)
PowRoundings == {"down", "up"}

PickPow(rounding, pows) == UNION {{x \in S : \A y \in S : IF rounding = "down" THEN Cmp(x, y) <= 0 ELSE Cmp(x, y) >= 0} : S \in {pows}}

homeAt83By(rounding, interestRate, daysInMonth, downAmount, principal, months, monthlyRate) ==
    CHOOSE result \in {homeAt93(interestRate, daysInMonth, downAmount, principal, months, monthlyRate,
                                 homeMonthlyPayment(principal, monthlyRate, months, pow)) :
                            pow \in PickPow(rounding, homePow(principal, monthlyRate, months))} : TRUE

homeAt80By(rounding, interestRate, years, daysInMonth, downAmount, principal) ==
    homeAt83By(rounding, interestRate, daysInMonth, downAmount, principal,
               homeMonths(years), homeMonthlyRate(interestRate))

homeAt79By(rounding, price, interestRate, years, daysInMonth, downAmount) ==
    homeAt80By(rounding, interestRate, years, daysInMonth, downAmount,
               homePrincipal(price, downAmount))

\* calculateHomeLoan as one engine evaluates it
calculateHomeLoanBy(rounding, price, downPercent, interestRate, years, daysInMonth) ==
    homeAt79By(rounding, price, interestRate, years, daysInMonth,
               homeDownAmount(price, downPercent))

(***************************************************************************)
(* The Page component's handlers.                                          *)
(***************************************************************************)
\* Math.min: NaN if either operand is
MathMin(x, y) ==
    IF IsNaN(x) \/ IsNaN(y) THEN NaN
    ELSE IF IsZero(x) /\ IsZero(y) THEN (IF x.sgn = 1 THEN x ELSE y)
    ELSE IF Cmp(x, y) <= 0 THEN x ELSE y

\* a slip: the number stored as it comes
handlePercent_NoClamp(value, stored) == IF IsNaN(value) THEN stored ELSE value

\* handlePercent(value, setter): the value the setter's state holds
\* afterwards, stored being what it held before
handlePercent(value, stored) ==
    IF IsNaN(value) THEN stored ELSE MathMax(FZero, MathMin(Hundred, value))

\* Number(event.target.value) || 0
NumberOrZero(value) == IF IsNaN(value) \/ IsZero(value) THEN FZero ELSE value

\* const compareTerms, carTerms, homeCompareTerms
compareTerms == <<4, 5, 6, 7>>

carTerms == <<2, 3, 4, 5, 6, 7, 8>>

homeCompareTerms == <<20, 25, 30, 35>>

\* the useState initial values
InitialPage ==
    [activeTab |-> "car",
     carPrice |-> FromInt(800000), carDownPercent |-> FromInt(25),
     carInterestRate |-> Dec(25, 1), carYears |-> FromInt(5), carType |-> "new",
     homePrice |-> FromInt(3000000), homeDownPercent |-> FromInt(10),
     homeInterestRate |-> FromInt(3), homeYears |-> FromInt(30),
     homeDaysInMonth |-> FromInt(31),
     darkMode |-> FALSE, isExporting |-> FALSE]

(***************************************************************************)
(* What the input elements hand to their onChange handlers, as the number  *)
(* Number(event.target.value) is.  A number field holds any number typed   *)
(* into it, inside its min and max or not, and no text (the number 0) when *)
(* what was typed is not a number; a range field holds a number between    *)
(* its min and max, on its step.                                           *)
(***************************************************************************)
CarPriceTyped == {FromInt(0 - 500000), FZero}

CarPriceSlid == {FromInt(800000)}

CarDownTyped == {FromInt(150)}

CarDownSlid == {FromInt(25)}

CarRateSlid == {Dec(25, 1), FromInt(10)}

HomePriceTyped == {FromInt(0 - 500000)}

HomePriceSlid == {FromInt(3000000)}

HomeDownTyped == {FromInt(0 - 5)}

HomeDownSlid == {FromInt(10)}

HomeRateSlid == {FromInt(3), FromInt(10)}

HomeYearsSlid == {FromInt(20), FromInt(30), FromInt(40)}

HomeDaysOptions == {FromInt(28), FromInt(31)}

Range(seq) == {seq[i] : i \in DOMAIN seq}

\* A memoized value is kept as the call that computed it: the calculators
\* are functions of their arguments, and resultOf is the object returned.
\* calculateCarLoan(carPrice, carDownPercent, carInterestRate, years, carType)
carLoanOf(p, years) ==
    [fn |-> "car", price |-> p.carPrice, downPercent |-> p.carDownPercent,
     interestRate |-> p.carInterestRate, years |-> years, carType |-> p.carType]

\* calculateHomeLoan(homePrice, homeDownPercent, homeInterestRate, years,
\* homeDaysInMonth)
homeLoanOf(p, years) ==
    [fn |-> "home", price |-> p.homePrice, downPercent |-> p.homeDownPercent,
     interestRate |-> p.homeInterestRate, years |-> years,
     daysInMonth |-> p.homeDaysInMonth]

resultOf(c) ==
    IF c.fn = "car"
    THEN calculateCarLoan(c.price, c.downPercent, c.interestRate, c.years, c.carType)
    ELSE calculateHomeLoanBy(engine.pow, c.price, c.downPercent, c.interestRate,
                             c.years, c.daysInMonth)

\* the dependency lists of the four useMemo calls
carLoanDeps(p) == <<p.carPrice, p.carDownPercent, p.carInterestRate, p.carYears, p.carType>>

homeLoanDeps(p) ==
    <<p.homePrice, p.homeDownPercent, p.homeInterestRate, p.homeYears, p.homeDaysInMonth>>

\* a slip: a dependency left out of the list
comparisonDeps_NoPrice(p) == <<p.carDownPercent, p.carInterestRate, p.carType>>

comparisonDeps(p) == <<p.carPrice, p.carDownPercent, p.carInterestRate, p.carType>>

homeComparisonDeps(p) ==
    <<p.homePrice, p.homeDownPercent, p.homeInterestRate, p.homeDaysInMonth>>

\* the first render: every useMemo computes its value
FirstRender(p) ==
    [carLoan |-> carLoanOf(p, p.carYears),
     homeLoan |-> homeLoanOf(p, p.homeYears),
     comparison |-> [i \in DOMAIN compareTerms |-> carLoanOf(p, FromInt(compareTerms[i]))],
     homeComparison |->
         [i \in DOMAIN homeCompareTerms |-> homeLoanOf(p, FromInt(homeCompareTerms[i]))]]

\* a later render of state p after state old: a useMemo whose dependencies
\* did not change returns the value it holds
Render(old, p, m) ==
    [carLoan |-> IF carLoanDeps(p) = carLoanDeps(old) THEN m.carLoan
                 ELSE carLoanOf(p, p.carYears),
     homeLoan |-> IF homeLoanDeps(p) = homeLoanDeps(old) THEN m.homeLoan
                  ELSE homeLoanOf(p, p.homeYears),
     comparison |-> IF comparisonDeps(p) = comparisonDeps(old) THEN m.comparison
                    ELSE FirstRender(p).comparison,
     homeComparison |-> IF homeComparisonDeps(p) = homeComparisonDeps(old)
                        THEN m.homeComparison
                        ELSE FirstRender(p).homeComparison]

(***************************************************************************)
(* The input elements.  Each action is an onChange or onClick handler and  *)
(* the render that follows it.  The inputs of a calculator are rendered    *)
(* only on its tab.                                                        *)
(***************************************************************************)
\* the browser once the page is mounted and its effects have run
SettledDom ==
    [mounted |-> TRUE, ref |-> TRUE, theme |-> "light", atMount |-> "unset",
     classDark |-> FALSE, effects |-> <<>>, toggled |-> FALSE, inFlight |-> 0,
     outcome |-> "none"]

\* a state setter called with value, and the render after it
SetState(field, value) ==
    /\ page' = [page EXCEPT ![field] = value]
    /\ memo' = Render(page, page', memo)
    /\ UNCHANGED <<engine, dom, pc, call, ret, ret2>>

SetActiveTab == \E tab \in {"car", "home"} : SetState("activeTab", tab)

SetCarType ==
    /\ page.activeTab = "car"
    /\ \E carType \in CarTypes : SetState("carType", carType)

ChangeCarPriceNumber ==
    /\ page.activeTab = "car"
    /\ \E value \in CarPriceTyped : SetState("carPrice", NumberOrZero(value))

ChangeCarPriceRange ==
    /\ page.activeTab = "car"
    /\ \E value \in CarPriceSlid : SetState("carPrice", value)

ChangeCarDown ==
    /\ page.activeTab = "car"
    /\ \E value \in CarDownTyped \cup CarDownSlid :
          SetState("carDownPercent", handlePercent(value, page.carDownPercent))

ChangeCarRate ==
    /\ page.activeTab = "car"
    /\ \E value \in CarRateSlid : SetState("carInterestRate", value)

ClickCarTerm ==
    /\ page.activeTab = "car"
    /\ \E i \in DOMAIN carTerms : SetState("carYears", FromInt(carTerms[i]))

ChangeHomePriceNumber ==
    /\ page.activeTab = "home"
    /\ \E value \in HomePriceTyped : SetState("homePrice", NumberOrZero(value))

ChangeHomePriceRange ==
    /\ page.activeTab = "home"
    /\ \E value \in HomePriceSlid : SetState("homePrice", value)

ChangeHomeDown ==
    /\ page.activeTab = "home"
    /\ \E value \in HomeDownTyped \cup HomeDownSlid :
          SetState("homeDownPercent", handlePercent(value, page.homeDownPercent))

ChangeHomeRate ==
    /\ page.activeTab = "home"
    /\ \E value \in HomeRateSlid : SetState("homeInterestRate", value)

ChangeHomeYears ==
    /\ page.activeTab = "home"
    /\ \E value \in HomeYearsSlid : SetState("homeYears", value)

ChangeDaysInMonth ==
    /\ page.activeTab = "home"
    /\ \E value \in HomeDaysOptions : SetState("homeDaysInMonth", value)

NoCall == pc = "page" /\ call = NoResult /\ ret = NoResult /\ ret2 = NoResult

InitPage ==
    /\ NoCall
    /\ page = InitialPage
    /\ engine \in [pow : PowRoundings]
    /\ memo = FirstRender(page)
    /\ dom = SettledDom

NextPage ==
    \/ SetActiveTab
    \/ SetCarType
    \/ ChangeCarPriceNumber
    \/ ChangeCarPriceRange
    \/ ChangeCarDown
    \/ ChangeCarRate
    \/ ClickCarTerm
    \/ ChangeHomePriceNumber
    \/ ChangeHomePriceRange
    \/ ChangeHomeDown
    \/ ChangeHomeRate
    \/ ChangeHomeYears
    \/ ChangeDaysInMonth

SpecPage == InitPage /\ [][NextPage]_vars

(***************************************************************************)
(* C11.  The arguments the page passes to the calculators.                 *)
(***************************************************************************)
CarArgsValidated(c) ==
    /\ FGe(c.price, FZero)
    /\ FGe(c.downPercent, FZero) /\ FLe(c.downPercent, Hundred)
    /\ FGe(c.interestRate, FZero)
    /\ FGt(c.years, FZero)
    /\ c.carType \in {"new", "used"}

HomeArgsValidated(c) ==
    /\ FGe(c.price, FZero)
    /\ FGe(c.downPercent, FZero) /\ FLe(c.downPercent, Hundred)
    /\ FGe(c.interestRate, FZero)
    /\ FGt(c.years, FZero)
    /\ c.daysInMonth \in {FromInt(d) : d \in 28..31}

\* the monetary fields of the result shown on the active tab
Displayed ==
    IF page.activeTab = "car"
    THEN {resultOf(memo.carLoan)[f] :
            f \in {"downAmount", "financeAmount", "totalInterest", "totalDebt",
                   "monthlyBase", "vatPerMonth", "monthlyTotal", "totalPaid"}}
    ELSE {resultOf(memo.homeLoan)[f] :
            f \in {"downAmount", "principal", "monthlyPayment", "totalPayment",
                   "totalInterest", "firstMonthInterest"}}

\* C11 as stated: after any sequence of input events the arguments the page
\* passes to calculateCarLoan and calculateHomeLoan are validated (price >= 0,
\* 0 <= downPercent <= 100, rate >= 0, termYears > 0, variant new or used,
\* firstMonthDays in 28..31), and no negative monetary value is displayed.
C11_AsStated ==
    /\ CarArgsValidated(memo.carLoan)
    /\ HomeArgsValidated(memo.homeLoan)
    /\ \A i \in DOMAIN memo.comparison : CarArgsValidated(memo.comparison[i])
    /\ \A i \in DOMAIN memo.homeComparison : HomeArgsValidated(memo.homeComparison[i])
    /\ \A x \in Displayed : NonNeg(x)

(***************************************************************************)
(* C12.  handlePercent, called with any number.                            *)
(***************************************************************************)
PercentValues ==
    {NaN, Inf(1), Inf(0), Neg(FZero), FZero}
    \cup {Dec(n, 1) : n \in {0 - 50, 5, 250, 1000, 1005, 1500}}

\* handlePercent(value, setter) and the render after it; call keeps the
\* value passed and what the setter's state held
HandlePercent(value, setter, field) ==
    /\ call' = [fn |-> "handlePercent", value |-> value, setter |-> setter,
                stored |-> page[field]]
    /\ pc' = "handled"
    /\ page' = [page EXCEPT ![field] = handlePercent(value, page[field])]
    /\ memo' = Render(page, page', memo)
    /\ UNCHANGED <<engine, dom, ret, ret2>>

HandlePercentCar ==
    /\ page.activeTab = "car"
    /\ \E value \in PercentValues : HandlePercent(value, "setCarDownPercent", "carDownPercent")

HandlePercentHome ==
    /\ page.activeTab = "home"
    /\ \E value \in PercentValues :
          HandlePercent(value, "setHomeDownPercent", "homeDownPercent")

NextPercent == SetActiveTab \/ HandlePercentCar \/ HandlePercentHome

SpecPercent == InitPage /\ [][NextPercent]_vars

InPercentRange(x) == FGe(x, FZero) /\ FLe(x, Hundred)

\* what the last call of handlePercent stored
Stored == IF call.setter = "setCarDownPercent" THEN page.carDownPercent
          ELSE page.homeDownPercent

\* C12: carDownPercent and homeDownPercent are in [0, 100] in every state,
\* the initial 25 and 10 included; a call of handlePercent with NaN leaves
\* the stored percentage as it was, and a call with a number stores
\* max(0, min(100, value)): 0 for a value below 0, 100 for one above 100, the
\* value itself otherwise.
C12_PercentClamp ==
    /\ InPercentRange(page.carDownPercent)
    /\ InPercentRange(page.homeDownPercent)
    /\ pc = "handled" =>
          /\ IsNaN(call.value) => Stored = call.stored
          /\ FLt(call.value, FZero) => Stored = FZero
          /\ FGt(call.value, Hundred) => Stored = Hundred
          /\ InPercentRange(call.value) => FEq(Stored, call.value) /\ Stored.sgn = 0

C12_Witness ==
    /\ pc = "handled"
    /\ FGt(call.value, Hundred)
    /\ call.setter = "setHomeDownPercent"
    /\ page.homeDownPercent = Hundred
    /\ page.carDownPercent = FZero

(***************************************************************************)
(* C13.  The comparison tables.                                            *)
(***************************************************************************)
\* every entry is the call for its term of the fixed list, with the current
\* price, down percent, rate and variant or day count; and the entry for
\* the selected term is the call whose result is shown as the current one
ComparisonIsCurrent ==
    /\ DOMAIN memo.comparison = 1..4
    /\ DOMAIN memo.homeComparison = 1..4
    /\ \A i \in 1..4 :
          /\ memo.comparison[i] = carLoanOf(page, FromInt(<<4, 5, 6, 7>>[i]))
          /\ memo.homeComparison[i] = homeLoanOf(page, FromInt(<<20, 25, 30, 35>>[i]))
          /\ page.carYears = FromInt(<<4, 5, 6, 7>>[i]) =>
                memo.comparison[i] = memo.carLoan
          /\ page.homeYears = FromInt(<<20, 25, 30, 35>>[i]) =>
                memo.homeComparison[i] = memo.homeLoan

TermChangeKeepsComparison ==
    (page'.carYears # page.carYears \/ page'.homeYears # page.homeYears) =>
        /\ memo'.comparison = memo.comparison
        /\ memo'.homeComparison = memo.homeComparison

\* C13: the comparison tables are always the calculators' results for the
\* terms 4, 5, 6, 7 (flat-rate) and 20, 25, 30, 35 (amortizing) with the
\* current price, down percent, rate and variant or day count; a change of the
\* selected term leaves every entry as it was; and when the selected term is
\* in the list, its entry is the current-term result.
C13_ComparisonTables == [](ComparisonIsCurrent) /\ [][TermChangeKeepsComparison]_vars

C13_Witness ==
    /\ page.carYears = FromInt(6)
    /\ page.homeYears = FromInt(20)
    /\ page.carPrice # InitialPage.carPrice
    /\ page.homeDaysInMonth # InitialPage.homeDaysInMonth
    /\ memo.comparison[3] = memo.carLoan
    /\ memo.homeComparison[1] = memo.homeLoan

(***************************************************************************)
(* The header: the theme button and its two effects, and the export        *)
(* button.  dom is the browser around the component:                       *)
(*   mounted, ref   the first commit has happened; infographicRef.current  *)
(*                  is the rendered section (null before the commit)       *)
(*   theme          localStorage "loan-theme" ("unset" when absent)        *)
(*   atMount        what it held when the page was loaded                  *)
(*   classDark      the document element has the class "dark"             *)
(*   effects        the effects of past renders that have not run yet,     *)
(*                  each with the darkMode of its render                   *)
(*   toggled        the theme button has been pressed                      *)
(*   inFlight       the exports waiting for html2canvas                    *)
(*   outcome        how the last call of exportInfographic ended           *)
(* React runs the effects of a render before it renders again, so a click  *)
(* is handled once the pending effects have run.                           *)
(***************************************************************************)
MaxInFlight == 2

StoredThemes == {"unset", "dark", "light"}

\* useEffect(..., []) and useEffect(..., [darkMode]) after the first render
mountEffects(p) == <<[run |-> "readTheme"], [run |-> "applyTheme", darkMode |-> p.darkMode]>>

\* a slip: the effect given an empty dependency list
effectsAfterRender_MountOnly(old, p) == <<>>

\* the effects of the render of state p after state old: the second
\* effect runs again when darkMode changed
effectsAfterRender(old, p) ==
    IF p.darkMode # old.darkMode
    THEN <<[run |-> "applyTheme", darkMode |-> p.darkMode]>>
    ELSE <<>>

\* a slip: the button left enabled
exportDisabled_Never(p) == FALSE

\* <button onClick={exportInfographic} disabled={isExporting}>
exportDisabled(p) == p.isExporting

\* the first commit: the ref is attached and the effects are scheduled
Commit ==
    /\ ~dom.mounted
    /\ dom' = [dom EXCEPT !.mounted = TRUE, !.ref = TRUE, !.effects = mountEffects(page)]
    /\ UNCHANGED <<page, memo, engine, pc, call, ret, ret2>>

\* const storedTheme = localStorage.getItem("loan-theme");
\* if (storedTheme === "dark") setDarkMode(true)
RunReadTheme ==
    /\ dom.effects # <<>>
    /\ Head(dom.effects).run = "readTheme"
    /\ page' = [page EXCEPT !.darkMode = IF dom.theme = "dark" THEN TRUE ELSE @]
    /\ memo' = Render(page, page', memo)
    /\ dom' = [dom EXCEPT !.effects = Tail(@) \o effectsAfterRender(page, page')]
    /\ UNCHANGED <<engine, pc, call, ret, ret2>>

\* classList.toggle("dark", darkMode);
\* localStorage.setItem("loan-theme", darkMode ? "dark" : "light")
RunApplyTheme ==
    /\ dom.effects # <<>>
    /\ Head(dom.effects).run = "applyTheme"
    /\ dom' = [dom EXCEPT !.effects = Tail(@),
                          !.classDark = Head(dom.effects).darkMode,
                          !.theme = IF Head(dom.effects).darkMode THEN "dark" ELSE "light"]
    /\ UNCHANGED <<page, memo, engine, pc, call, ret, ret2>>

\* onClick={() => setDarkMode((prev) => !prev)}
ToggleDarkMode ==
    /\ dom.mounted
    /\ dom.effects = <<>>
    /\ page' = [page EXCEPT !.darkMode = ~@]
    /\ memo' = Render(page, page', memo)
    /\ dom' = [dom EXCEPT !.toggled = TRUE, !.effects = effectsAfterRender(page, page')]
    /\ UNCHANGED <<engine, pc, call, ret, ret2>>

\* exportInfographic up to its await.  With no element rendered it returns;
\* otherwise it sets isExporting and waits for html2canvas.
ExportInfographic ==
    /\ ~exportDisabled(page)
    /\ dom.effects = <<>>
    /\ dom.inFlight < MaxInFlight
    /\ IF ~dom.ref
       THEN /\ dom' = [dom EXCEPT !.outcome = "returned"]
            /\ UNCHANGED <<page, memo>>
       ELSE /\ page' = [page EXCEPT !.isExporting = TRUE]
            /\ memo' = Render(page, page', memo)
            /\ dom' = [dom EXCEPT !.inFlight = @ + 1, !.outcome = "waiting"]
    /\ UNCHANGED <<engine, pc, call, ret, ret2>>

\* html2canvas resolves and the download is started; finally
\* setIsExporting(false)
ExportSaves ==
    /\ dom.inFlight > 0
    /\ page' = [page EXCEPT !.isExporting = FALSE]
    /\ memo' = Render(page, page', memo)
    /\ dom' = [dom EXCEPT !.inFlight = @ - 1, !.outcome = "saved"]
    /\ UNCHANGED <<engine, pc, call, ret, ret2>>

\* html2canvas rejects, or toDataURL or the download throws; finally
\* setIsExporting(false)
ExportThrows ==
    /\ dom.inFlight > 0
    /\ page' = [page EXCEPT !.isExporting = FALSE]
    /\ memo' = Render(page, page', memo)
    /\ dom' = [dom EXCEPT !.inFlight = @ - 1, !.outcome = "threw"]
    /\ UNCHANGED <<engine, pc, call, ret, ret2>>

InitHeader ==
    /\ NoCall
    /\ page = InitialPage
    /\ engine \in [pow : PowRoundings]
    /\ memo = FirstRender(page)
    /\ \E stored \in StoredThemes :
          dom = [mounted |-> FALSE, ref |-> FALSE, theme |-> stored, atMount |-> stored,
                 classDark |-> FALSE, effects |-> <<>>, toggled |-> FALSE, inFlight |-> 0,
                 outcome |-> "none"]

NextHeader ==
    \/ Commit
    \/ RunReadTheme
    \/ RunApplyTheme
    \/ ToggleDarkMode
    \/ SetActiveTab
    \/ ExportInfographic
    \/ ExportSaves
    \/ ExportThrows

SpecHeader == InitHeader /\ [][NextHeader]_vars

\* C16: isExporting is true exactly while an export waits for html2canvas:
\* it is set when an export starts and is false again as soon as the export
\* ends, whether it saved or threw; the disabled button keeps a second
\* export from starting, so at most one is in flight; and a call with no
\* rendered element returns with the flag untouched.
ExportFlagTracksFlight == /\ page.isExporting <=> dom.inFlight > 0
                          /\ dom.inFlight <= 1
                          /\ ~dom.ref => ~page.isExporting

ExportStep == /\ dom'.inFlight > dom.inFlight => dom.ref /\ ~page.isExporting /\ page'.isExporting
              /\ dom'.inFlight < dom.inFlight => page.isExporting /\ ~page'.isExporting
              /\ dom'.outcome = "returned" /\ dom.outcome # "returned" => ~dom.ref /\ page'.isExporting = page.isExporting /\ dom'.inFlight = dom.inFlight

C16_ExportFlag == [](ExportFlagTracksFlight) /\ [][ExportStep]_vars

C16_Witness == /\ dom.outcome = "threw"
               /\ dom.inFlight = 0
               /\ ~page.isExporting

\* C17: once the effects of the mount and of the render they cause have
\* run, a page loaded with "dark" stored has darkMode true and "dark" stored
\* again; and whenever no effect is pending, "dark" is stored exactly when
\* darkMode is true, whatever was toggled.
ThemeSettled == dom.mounted /\ dom.effects = <<>>

C17_ThemePersists == /\ ThemeSettled => (dom.theme = "dark" <=> page.darkMode)
                     /\ ThemeSettled /\ dom.atMount = "dark" /\ ~dom.toggled => page.darkMode /\ dom.theme = "dark"

C17_Witness == /\ ThemeSettled
               /\ dom.atMount = "dark"
               /\ ~dom.toggled
               /\ page.darkMode
               /\ dom.theme = "dark"

(***************************************************************************)
(* The calculators called again.  A call is made, the page goes on (tab,   *)
(* theme, export) and other calls are made, and then the                   *)
(* call is repeated, or repeated with another day count or another term.   *)
(* ret holds the first result, ret2 the result of the latest later call.   *)
(* Within one run of the program ** is one function of its operands        *)
(* (engine.pow says which of the admissible roundings it returns).         *)
(***************************************************************************)
CarArgs(price, downPercent, interestRate, years, carType) == [fn |-> "car", price |-> price, downPercent |-> downPercent, interestRate |-> interestRate, years |-> years, carType |-> carType]

HomeArgs(price, downPercent, interestRate, years, daysInMonth) == [fn |-> "home", price |-> price, downPercent |-> downPercent, interestRate |-> interestRate, years |-> years, daysInMonth |-> daysInMonth]

RepeatedCalls ==
    {CarArgs(FromInt(800000), FromInt(25), Dec(25, 1), FromInt(5), "new"),
     CarArgs(FromInt(800000), FromInt(25), Dec(25, 1), FromInt(5), "used"),
     HomeArgs(FromInt(3000000), FromInt(10), FromInt(3), FromInt(30), FromInt(31)),
     HomeArgs(FromInt(800000), FromInt(25), FZero, FromInt(5), FromInt(29))}

OtherCalls ==
    {CarArgs(FromInt(3000000), FromInt(10), FromInt(3), FromInt(7), "used"),
     HomeArgs(FromInt(800000), FromInt(25), Dec(25, 1), FromInt(20), FromInt(30))}

OtherDays == {FromInt(28)}

OtherYears == {FromInt(35)}

CallKinds == {"first", "other", "again", "days", "years"}

\* the arguments of a call of each kind: the call itself, another call, or
\* the home call with another day count or another term
ArgsOf(kind) ==
    CASE kind \in {"first", "again"} -> {call}
      [] kind = "other" -> OtherCalls
      [] kind = "days" -> IF call.fn = "home" THEN {[call EXCEPT !.daysInMonth = days] : days \in OtherDays \ {call.daysInMonth}} ELSE {}
      [] kind = "years" -> IF call.fn = "home" THEN {[call EXCEPT !.years = years] : years \in OtherYears \ {call.years}} ELSE {}

\* a calculator is called and returns
CallCalculator ==
    \E kind \in CallKinds :
       /\ pc = IF kind = "first" THEN "call" ELSE "between"
       /\ \E c \in ArgsOf(kind) : \E result \in {resultOf(c)} :
             /\ ret' = IF kind = "first" THEN result ELSE ret
             /\ ret2' = IF kind = "first" THEN ret2 ELSE result
       /\ pc' = IF kind \in {"first", "other"} THEN "between" ELSE kind
       /\ UNCHANGED <<call, pageVars>>

InitCalls ==
    /\ pc = "call"
    /\ call \in RepeatedCalls
    /\ ret = NoResult
    /\ ret2 = NoResult
    /\ page = InitialPage
    /\ engine \in [pow : PowRoundings]
    /\ memo = FirstRender(page)
    /\ dom = SettledDom

NextCalls ==
    \/ CallCalculator
    \/ pc = "between" /\ SetActiveTab
    \/ pc = "between" /\ ToggleDarkMode
    \/ pc = "between" /\ RunApplyTheme
    \/ pc = "between" /\ ExportInfographic
    \/ pc = "between" /\ ExportSaves

SpecCalls == InitCalls /\ [][NextCalls]_vars

C15_FirstMonthInterest ==
    /\ pc # "call" /\ call.fn = "home" =>
          ret.firstMonthInterest = FDiv(FMul(FMul(ret.principal, FDiv(call.interestRate, Hundred)), call.daysInMonth), FromInt(365))
    /\ pc = "days" =>
          /\ [ret2 EXCEPT !.firstMonthInterest = FZero] = [ret EXCEPT !.firstMonthInterest = FZero]
          /\ FGt(ret.principal, FZero) /\ FGt(call.interestRate, FZero) => ret2.firstMonthInterest # ret.firstMonthInterest
    /\ pc = "years" => ret2.firstMonthInterest = ret.firstMonthInterest

C15_Witness == /\ pc = "days"
               /\ FGt(ret.principal, FZero)
               /\ ret2.firstMonthInterest # ret.firstMonthInterest
               /\ ret2.monthlyPayment = ret.monthlyPayment
               /\ FGt(ret.monthlyPayment, FZero)

====
